---- MODULE Spec2Model ----
(***************************************************************************)
(* seqnereval: the span aligner (NEREvaluator.__calculate_metrics_for_doc), *)
(* the corpus evaluator (NEREvaluator.__init__ / evaluate) and the tag     *)
(* decoder (NERTagListEvaluator.__tagged_list_to_span), as state machines. *)
(* Indices are 0-based as in the source; element i of a Python list l is   *)
(* l[i + 1] here.                                                          *)
(***************************************************************************)
EXTENDS Integers, Sequences, FiniteSets, TLC

VARIABLES
    align,      \* the locals of one __calculate_metrics_for_doc call
    ev,         \* the NEREvaluator object and the locals of evaluate()
    dec         \* the locals of one __tagged_list_to_span call

vars == <<align, ev, dec>>

-----------------------------------------------------------------------------
(* Bounds of the model *)

\* token offsets of a document in the aligner are 0 .. MaxTok - 1
MaxTok == 4
\* most spans in one gold or predicted list given to the aligner
MaxSpans == MaxTok \div 2
\* most documents in a corpus
MaxDocs == 2
\* most tags in all the tag lists of one decoder call together
MaxTags == 4
\* largest entity_context_padding
MaxPad == 1

\* a Python string is the sequence of its characters
PER == <<"P", "E", "R">>
LOC == <<"L", "O", "C">>

SpanTypes == {PER, LOC}

-----------------------------------------------------------------------------
(* models.Span *)

Span(t, s, e) == [span_type |-> t, start_idx |-> s, end_idx |-> e]

\* Span(span_type, start_idx, end_idx, tokens, context_tokens)
SpanWithTokens(t, s, e, toks, ctx) ==
    [span_type |-> t, start_idx |-> s, end_idx |-> e,
     tokens |-> toks, context_tokens |-> ctx]

\* Span.__eq__: same type and same bounds
SpanEq(a, b) ==
    /\ a.span_type = b.span_type
    /\ a.start_idx = b.start_idx
    /\ a.end_idx = b.end_idx

\* Span.bounds_same_tokens_as
bounds_same_tokens_as(a, b) ==
    a.start_idx = b.start_idx /\ a.end_idx = b.end_idx

\* Span.overlaps_with: the two inclusive ranges share a token offset
overlaps_with(a, b) ==
    a.start_idx <= b.end_idx /\ b.start_idx <= a.end_idx

-----------------------------------------------------------------------------
(* models.ResultAggregator *)

CounterNames ==
    {"exact_match", "type_mismatch_exact_bounds", "type_match_partial",
     "type_mismatch_partial", "missed_gold", "spurious_pred"}

\* ResultAggregator(): every counter zero
ResultAggregator == [c \in CounterNames |-> 0]

add_type_match_bounds_match(r) == [r EXCEPT !.exact_match = @ + 1]
add_type_mismatch_bounds_match(r) == [r EXCEPT !.type_mismatch_exact_bounds = @ + 1]
add_type_match_bounds_partial(r) == [r EXCEPT !.type_match_partial = @ + 1]
add_type_mismatch_bounds_partial(r) == [r EXCEPT !.type_mismatch_partial = @ + 1]
add_missed_gold_span(r) == [r EXCEPT !.missed_gold = @ + 1]
add_unecessary_predicted_span(r) == [r EXCEPT !.spurious_pred = @ + 1]

\* the add_* operation that counts an outcome of the given kind
AddOutcome(r, kind) ==
    CASE kind = "exact_match" -> add_type_match_bounds_match(r)
      [] kind = "type_mismatch_exact_bounds" -> add_type_mismatch_bounds_match(r)
      [] kind = "type_match_partial" -> add_type_match_bounds_partial(r)
      [] kind = "type_mismatch_partial" -> add_type_mismatch_bounds_partial(r)
      [] kind = "missed_gold" -> add_missed_gold_span(r)
      [] kind = "spurious_pred" -> add_unecessary_predicted_span(r)

\* ResultAggregator.append_result_aggregator: counter-wise addition
append_result_aggregator(r, other) == [c \in CounterNames |-> r[c] + other[c]]

\* defaultdict(lambda: ResultAggregator()): a key is created on first access
GroupedAdd(grouped, tag, kind) ==
    IF tag \in DOMAIN grouped
    THEN [grouped EXCEPT ![tag] = AddOutcome(@, kind)]
    ELSE grouped @@ (tag :> AddOutcome(ResultAggregator, kind))

-----------------------------------------------------------------------------
(* NEREvaluator.__calculate_metrics_for_doc *)

\* entity_span_sort_fn: the sort key (start_idx, end_idx), compared as a tuple
KeyLess(a, b) ==
    \/ a.start_idx < b.start_idx
    \/ a.start_idx = b.start_idx /\ a.end_idx < b.end_idx

\* insertion of x into a sorted list after every element whose key is not
\* greater (list.sort is stable)
RECURSIVE SortedInsert(_, _)
SortedInsert(l, x) ==
    IF l = <<>> THEN <<x>>
    ELSE IF KeyLess(x, Head(l)) THEN <<x>> \o l
    ELSE <<Head(l)>> \o SortedInsert(Tail(l), x)

\* list.sort(key=entity_span_sort_fn)
RECURSIVE SortSpans(_)
SortSpans(l) ==
    IF l = <<>> THEN <<>>
    ELSE SortedInsert(SortSpans(SubSeq(l, 1, Len(l) - 1)), l[Len(l)])

\* results.add_X(...) together with results_grouped_by_tags[tag].add_X(...);
\* calls keeps the arguments of every add_X call, as indices into the sorted
\* lists (-1: the call has no such argument)
Count(a, kind, tag, gi, pi) ==
    [a EXCEPT !.results = AddOutcome(@, kind),
              !.results_grouped_by_tags = GroupedAdd(@, tag, kind),
              !.calls = Append(@, [kind |-> kind, gold |-> gi, pred |-> pi])]

\* lines 61-72: sort both lists in place, clear the flags and the cursors
AlignBegin(gold, pred) ==
    [pc |-> "main",
     gold_entity_spans |-> SortSpans(gold),
     pred_entity_spans |-> SortSpans(pred),
     gold_part_overlap_in_last_step |-> FALSE,
     pred_part_overlap_in_last_step |-> FALSE,
     gold_idx |-> 0,
     pred_idx |-> 0,
     results |-> ResultAggregator,
     results_grouped_by_tags |-> <<>>,
     calls |-> <<>>,
     iterations |-> 0]

\* the condition of the main loop, line 74
InMainLoop(a) ==
    /\ a.gold_idx < Len(a.gold_entity_spans)
    /\ a.pred_idx < Len(a.pred_entity_spans)

\* PartialAdvance with the cursor left in place when the predicted span ends
\* first
PartialAdvance_PredStays(a, g, p) ==
    IF p.end_idx > g.end_idx
    THEN [a EXCEPT !.pred_part_overlap_in_last_step = TRUE,
                   !.gold_idx = @ + 1]
    ELSE IF p.end_idx < g.end_idx
    THEN [a EXCEPT !.gold_part_overlap_in_last_step = TRUE]
    ELSE [a EXCEPT !.gold_idx = @ + 1,
                   !.pred_idx = @ + 1,
                   !.gold_part_overlap_in_last_step = FALSE,
                   !.pred_part_overlap_in_last_step = FALSE]

\* PartialAdvance that moves both cursors after every partial overlap
PartialAdvance_BothMove(a, g, p) ==
    IF p.end_idx > g.end_idx
    THEN [a EXCEPT !.pred_part_overlap_in_last_step = TRUE,
                   !.gold_idx = @ + 1,
                   !.pred_idx = @ + 1]
    ELSE IF p.end_idx < g.end_idx
    THEN [a EXCEPT !.gold_part_overlap_in_last_step = TRUE,
                   !.gold_idx = @ + 1,
                   !.pred_idx = @ + 1]
    ELSE [a EXCEPT !.gold_idx = @ + 1,
                   !.pred_idx = @ + 1,
                   !.gold_part_overlap_in_last_step = FALSE,
                   !.pred_part_overlap_in_last_step = FALSE]

\* lines 139-148: which cursor moves after a partial overlap
PartialAdvance(a, g, p) ==
    IF p.end_idx > g.end_idx
    THEN [a EXCEPT !.pred_part_overlap_in_last_step = TRUE,
                   !.gold_idx = @ + 1]
    ELSE IF p.end_idx < g.end_idx
    THEN [a EXCEPT !.gold_part_overlap_in_last_step = TRUE,
                   !.pred_idx = @ + 1]
    ELSE [a EXCEPT !.gold_idx = @ + 1,
                   !.pred_idx = @ + 1,
                   !.gold_part_overlap_in_last_step = FALSE,
                   !.pred_part_overlap_in_last_step = FALSE]

\* SkipGold without the test of the carry flag
SkipGold_IgnoresCarry(a, g) ==
    [Count(a, "missed_gold", g.span_type, a.gold_idx, -1)
        EXCEPT !.gold_idx = @ + 1,
               !.gold_part_overlap_in_last_step = FALSE]

\* lines 151-163: the predicted span starts after the gold span ends
SkipGold(a, g) ==
    LET c == IF ~a.gold_part_overlap_in_last_step
             THEN Count(a, "missed_gold", g.span_type, a.gold_idx, -1)
             ELSE a
    IN [c EXCEPT !.gold_idx = @ + 1,
                 !.gold_part_overlap_in_last_step = FALSE]

\* SkipPred that records the spurious span under the type of the gold span
\* at the cursor
SkipPred_KeyedByGold(a, p) ==
    LET c == IF ~a.pred_part_overlap_in_last_step
             THEN Count(a, "spurious_pred",
                        a.gold_entity_spans[a.gold_idx + 1].span_type,
                        -1, a.pred_idx)
             ELSE a
    IN [c EXCEPT !.pred_idx = @ + 1,
                 !.pred_part_overlap_in_last_step = TRUE]

\* lines 164-176: the predicted span ends before the gold span starts
SkipPred(a, p) ==
    LET c == IF ~a.pred_part_overlap_in_last_step
             THEN Count(a, "spurious_pred", p.span_type, -1, a.pred_idx)
             ELSE a
    IN [c EXCEPT !.pred_idx = @ + 1,
                 !.pred_part_overlap_in_last_step = TRUE]

\* MainIteration without the test of line 75: a pair of equal spans falls
\* through to the test of the bounds
MainIteration_NoExactTest(a) ==
    LET g == a.gold_entity_spans[a.gold_idx + 1]
        p == a.pred_entity_spans[a.pred_idx + 1]
        b == [a EXCEPT !.iterations = @ + 1]
    IN IF bounds_same_tokens_as(g, p)
       THEN [Count(b, "type_mismatch_exact_bounds", g.span_type,
                   a.gold_idx, a.pred_idx)
                EXCEPT !.gold_idx = @ + 1,
                       !.pred_idx = @ + 1,
                       !.gold_part_overlap_in_last_step = FALSE,
                       !.pred_part_overlap_in_last_step = FALSE]
       ELSE IF overlaps_with(g, p)
       THEN PartialAdvance(
                Count(b,
                      IF g.span_type = p.span_type
                      THEN "type_match_partial" ELSE "type_mismatch_partial",
                      g.span_type, a.gold_idx, a.pred_idx),
                g, p)
       ELSE IF p.start_idx > g.end_idx THEN SkipGold(b, g)
       ELSE IF p.end_idx < g.start_idx THEN SkipPred(b, p)
       ELSE b

\* lines 75-176: one iteration of the main loop
MainIteration(a) ==
    LET g == a.gold_entity_spans[a.gold_idx + 1]
        p == a.pred_entity_spans[a.pred_idx + 1]
        b == [a EXCEPT !.iterations = @ + 1]
    IN IF SpanEq(g, p)
       THEN [Count(b, "exact_match", g.span_type, a.gold_idx, a.pred_idx)
                EXCEPT !.gold_idx = @ + 1,
                       !.pred_idx = @ + 1,
                       !.gold_part_overlap_in_last_step = FALSE,
                       !.pred_part_overlap_in_last_step = FALSE]
       ELSE IF bounds_same_tokens_as(g, p)
       THEN [Count(b, "type_mismatch_exact_bounds", g.span_type,
                   a.gold_idx, a.pred_idx)
                EXCEPT !.gold_idx = @ + 1,
                       !.pred_idx = @ + 1,
                       !.gold_part_overlap_in_last_step = FALSE,
                       !.pred_part_overlap_in_last_step = FALSE]
       ELSE IF overlaps_with(g, p)
       THEN PartialAdvance(
                Count(b,
                      IF g.span_type = p.span_type
                      THEN "type_match_partial" ELSE "type_mismatch_partial",
                      g.span_type, a.gold_idx, a.pred_idx),
                g, p)
       ELSE IF p.start_idx > g.end_idx THEN SkipGold(b, g)
       ELSE IF p.end_idx < g.start_idx THEN SkipPred(b, p)
       ELSE b

\* lines 178-179
GoldCarry(a) ==
    [a EXCEPT !.pc = "gold_drain",
              !.gold_idx = IF a.gold_part_overlap_in_last_step THEN @ + 1 ELSE @]

\* lines 181-191: one iteration of the loop over the remaining gold spans
GoldDrain(a) ==
    [Count(a, "missed_gold", a.gold_entity_spans[a.gold_idx + 1].span_type,
           a.gold_idx, -1)
        EXCEPT !.gold_idx = @ + 1]

\* lines 193-194
PredCarry(a) ==
    [a EXCEPT !.pc = "pred_drain",
              !.pred_idx = IF a.pred_part_overlap_in_last_step THEN @ + 1 ELSE @]

\* lines 195-205: one iteration of the loop over the remaining predicted spans
PredDrain(a) ==
    [Count(a, "spurious_pred", a.pred_entity_spans[a.pred_idx + 1].span_type,
           -1, a.pred_idx)
        EXCEPT !.pred_idx = @ + 1]

\* one step of the call, by its position
AlignStep(a) ==
    CASE a.pc = "main" ->
            IF InMainLoop(a) THEN MainIteration(a)
            ELSE [a EXCEPT !.pc = "gold_carry"]
      [] a.pc = "gold_carry" -> GoldCarry(a)
      [] a.pc = "gold_drain" ->
            IF a.gold_idx < Len(a.gold_entity_spans) THEN GoldDrain(a)
            ELSE [a EXCEPT !.pc = "pred_carry"]
      [] a.pc = "pred_carry" -> PredCarry(a)
      [] a.pc = "pred_drain" ->
            IF a.pred_idx < Len(a.pred_entity_spans) THEN PredDrain(a)
            ELSE [a EXCEPT !.pc = "done"]
      [] OTHER -> a

-----------------------------------------------------------------------------
(* NERTagListEvaluator.__tagged_list_to_span *)

\* None, where the source holds None in a string variable
None == <<"None">>

\* None, where the source holds None in an offset variable
NoOffset == -1

\* line 245
valid_token_tag_prefix == {"B", "I", "L", "O", "U"}

\* token_tag.startswith(valid_token_tag_prefix)
StartsWithValidPrefix(token_tag) ==
    Len(token_tag) >= 1 /\ token_tag[1] \in valid_token_tag_prefix

\* token_tag[2:]
From2(token_tag) ==
    IF Len(token_tag) <= 2 THEN <<>> ELSE SubSeq(token_tag, 3, Len(token_tag))

\* token_tag[:1]
UpTo1(token_tag) ==
    IF Len(token_tag) = 0 THEN <<>> ELSE <<token_tag[1]>>

Max(a, b) == IF a >= b THEN a ELSE b
Min(a, b) == IF a <= b THEN a ELSE b

\* token_list[lo:hi] for 0 <= lo and 0 <= hi
Slice(token_list, lo, hi) ==
    IF lo >= Min(hi, Len(token_list)) THEN <<>>
    ELSE SubSeq(token_list, lo + 1, Min(hi, Len(token_list)))

\* get_context_tokens that pads the window on the left only
get_context_tokens_LeftOnly(token_list, start_offset, end_offset, padding) ==
    Slice(token_list,
          Max(0, start_offset - padding),
          Min(end_offset + 1, Len(token_list)))

\* lines 247-250
get_context_tokens(token_list, start_offset, end_offset, padding) ==
    Slice(token_list,
          Max(0, start_offset - padding),
          Min(end_offset + padding + 1, Len(token_list)))

\* the Span built at lines 277-279, 296-298 and 312-313
NewSpan(d, end_offset) ==
    SpanWithTokens(d.label, d.start_offset, end_offset,
                   Slice(d.token_list, d.start_offset, end_offset + 1),
                   get_context_tokens(d.token_list, d.start_offset, end_offset,
                                      d.entity_context_padding))

\* lines 241-254: the locals at the call, and the test of the two list counts
DecodeBegin(n_tag_lists, n_token_lists, padding) ==
    [pc |-> IF n_tag_lists # n_token_lists THEN "error" ELSE "doc",
     error |-> IF n_tag_lists # n_token_lists THEN "ListCountMismatch" ELSE "none",
     n_docs |-> n_tag_lists,
     entity_context_padding |-> padding,
     doc |-> 0,
     tag_list |-> <<>>,
     token_list |-> <<>>,
     offset |-> 0,
     results |-> <<>>,
     labelled_entities |-> <<>>,
     start_offset |-> NoOffset,
     end_offset |-> NoOffset,
     label |-> None,
     doc_spans |-> <<>>]

\* DecodeDoc without the reset of lines 258-262
DecodeDoc_NoReset(d, tag_list, token_list) ==
    LET r == [d EXCEPT !.tag_list = tag_list,
                       !.token_list = token_list,
                       !.offset = 0]
    IN IF Len(tag_list) # Len(token_list)
       THEN [r EXCEPT !.pc = "error", !.error = "LengthMismatch"]
       ELSE [r EXCEPT !.pc = "tag"]

\* LengthsDiffer that sees only a tag list longer than the token list
LengthsDiffer_OnlyLonger(tag_list, token_list) == Len(tag_list) > Len(token_list)

\* lines 264-268
LengthsDiffer(tag_list, token_list) == Len(tag_list) # Len(token_list)

\* lines 256-268: the next document of the loop; reset, then the length test
DecodeDoc(d, tag_list, token_list) ==
    LET r == [d EXCEPT !.tag_list = tag_list,
                       !.token_list = token_list,
                       !.offset = 0,
                       !.labelled_entities = <<>>,
                       !.start_offset = NoOffset,
                       !.end_offset = NoOffset,
                       !.label = None]
    IN IF LengthsDiffer(tag_list, token_list)
       THEN [r EXCEPT !.pc = "error", !.error = "LengthMismatch"]
       ELSE [r EXCEPT !.pc = "tag"]

\* CloseSpan that ends the span at the current offset
CloseSpan_AtOffset(d) ==
    [d EXCEPT !.end_offset = d.offset,
              !.labelled_entities = Append(@, NewSpan(d, d.offset))]

\* lines 275-283 and 294-304: the open span ends before this offset
CloseSpan(d) ==
    [d EXCEPT !.end_offset = d.offset - 1,
              !.labelled_entities = Append(@, NewSpan(d, d.offset - 1))]

\* IsUnknownTag that lets every tag pass
IsUnknownTag_Never(token_tag) == FALSE

\* line 305
IsUnknownTag(token_tag) == ~StartsWithValidPrefix(token_tag)

\* DecodeTag that lets a B or U tag of the open span's type continue it
DecodeTag_SameTypeContinues(d) ==
    LET token_tag == d.tag_list[d.offset + 1]
        n == [d EXCEPT !.offset = @ + 1]
    IN IF token_tag = <<"O">>
       THEN IF d.label # None /\ d.start_offset # NoOffset
            THEN [CloseSpan(d) EXCEPT !.offset = d.offset + 1,
                                      !.start_offset = NoOffset,
                                      !.end_offset = NoOffset,
                                      !.label = None]
            ELSE n
       ELSE IF d.label = None /\ StartsWithValidPrefix(token_tag)
       THEN [n EXCEPT !.label = From2(token_tag),
                      !.start_offset = d.offset]
       ELSE IF d.label # From2(token_tag) /\ StartsWithValidPrefix(token_tag)
       THEN [CloseSpan(d) EXCEPT !.offset = d.offset + 1,
                                 !.label = From2(token_tag),
                                 !.start_offset = d.offset,
                                 !.end_offset = NoOffset]
       ELSE IF IsUnknownTag(token_tag)
       THEN [d EXCEPT !.pc = "error", !.error = "InvalidTag"]
       ELSE n

\* lines 270-307: the tag at the current offset
DecodeTag(d) ==
    LET token_tag == d.tag_list[d.offset + 1]
        n == [d EXCEPT !.offset = @ + 1]
    IN IF token_tag = <<"O">>
       THEN IF d.label # None /\ d.start_offset # NoOffset
            THEN [CloseSpan(d) EXCEPT !.offset = d.offset + 1,
                                      !.start_offset = NoOffset,
                                      !.end_offset = NoOffset,
                                      !.label = None]
            ELSE n
       ELSE IF d.label = None /\ StartsWithValidPrefix(token_tag)
       THEN [n EXCEPT !.label = From2(token_tag),
                      !.start_offset = d.offset]
       ELSE IF \/ d.label # From2(token_tag) /\ StartsWithValidPrefix(token_tag)
               \/ /\ d.label = From2(token_tag)
                  /\ (UpTo1(token_tag) = <<"B">> \/ UpTo1(token_tag) = <<"U">>)
       THEN [CloseSpan(d) EXCEPT !.offset = d.offset + 1,
                                 !.label = From2(token_tag),
                                 !.start_offset = d.offset,
                                 !.end_offset = NoOffset]
       ELSE IF IsUnknownTag(token_tag)
       THEN [d EXCEPT !.pc = "error", !.error = "InvalidTag"]
       ELSE n

\* lines 316-318: the document's spans join the results
AppendDocSpans(results, labelled_entities) ==
    IF Len(labelled_entities) > 0
    THEN Append(results, labelled_entities)
    ELSE results

\* lines 309-318: the end of the document's tags
DecodeDocEnd(d) ==
    LET c == IF d.label # None /\ d.start_offset # NoOffset
                 /\ d.end_offset = NoOffset
             THEN [d EXCEPT !.end_offset = Len(d.tag_list) - 1,
                            !.labelled_entities =
                                Append(@, NewSpan(d, Len(d.tag_list) - 1))]
             ELSE d
    IN [c EXCEPT !.pc = "doc",
                 !.doc = @ + 1,
                 !.results = AppendDocSpans(@, c.labelled_entities),
                 !.labelled_entities =
                     IF Len(c.labelled_entities) > 0 THEN <<>> ELSE @,
                 !.doc_spans = Append(@, c.labelled_entities)]

\* line 320
DecodeReturn(d) == [d EXCEPT !.pc = "returned"]

\* the call run to its end on the given lists
RECURSIVE DecodeRun(_, _, _)
DecodeRun(d, tag_lists, token_lists) ==
    CASE d.pc = "doc" ->
            IF d.doc < d.n_docs
            THEN DecodeRun(DecodeDoc(d, tag_lists[d.doc + 1],
                                     token_lists[d.doc + 1]),
                           tag_lists, token_lists)
            ELSE DecodeReturn(d)
      [] d.pc = "tag" ->
            IF d.offset < Len(d.tag_list)
            THEN DecodeRun(DecodeTag(d), tag_lists, token_lists)
            ELSE DecodeRun(DecodeDocEnd(d), tag_lists, token_lists)
      [] OTHER -> d

\* __tagged_list_to_span(tag_lists, token_lists)
tagged_list_to_span(tag_lists, token_lists, padding) ==
    DecodeRun(DecodeBegin(Len(tag_lists), Len(token_lists), padding),
              tag_lists, token_lists)

-----------------------------------------------------------------------------
(* NEREvaluator.__init__, NERTagListEvaluator.__init__, NEREvaluator.evaluate *)

\* the call of __calculate_metrics_for_doc run to its return, line 207
RECURSIVE AlignRun(_)
AlignRun(a) == IF a.pc = "done" THEN a ELSE AlignRun(AlignStep(a))

calculate_metrics_for_doc(gold_entity_spans, pred_entity_spans) ==
    AlignRun(AlignBegin(gold_entity_spans, pred_entity_spans))

\* the evaluator before any constructor has run
EvIdle ==
    [pc |-> "idle",
     error |-> "none",
     n_gold_docs |-> 0,
     n_pred_docs |-> 0,
     tokens |-> <<>>,
     gold_tag_lists |-> <<>>,
     pred_tag_lists |-> <<>>,
     entity_context_padding |-> 0,
     gold_entity_span_lists |-> <<>>,
     pred_entity_span_lists |-> <<>>,
     unique_gold_tags |-> {},
     self_results |-> ResultAggregator,
     self_results_grouped_by_tags |-> <<>>,
     aggregators |-> 0,
     results_by_doc |-> <<>>,
     results |-> ResultAggregator,
     results_for_curr_doc |-> <<>>,
     returned |-> <<>>]

\* DocumentCountsDiffer that sees only a longer gold corpus
DocumentCountsDiffer_OnlyLonger(gold_entity_span_lists, pred_entity_span_lists) ==
    Len(gold_entity_span_lists) > Len(pred_entity_span_lists)

\* line 15
DocumentCountsDiffer(gold_entity_span_lists, pred_entity_span_lists) ==
    Len(gold_entity_span_lists) # Len(pred_entity_span_lists)

\* lines 24-27
UniqueGoldTags(gold_entity_span_lists) ==
    {s.span_type :
        s \in UNION {{gold_entity_span_lists[i][j] :
                          j \in 1 .. Len(gold_entity_span_lists[i])} :
                      i \in 1 .. Len(gold_entity_span_lists)}}

\* lines 15-31, on the object e; n_gold_docs and n_pred_docs keep the sizes of
\* the two arguments, aggregators counts the ResultAggregator() calls
NEREvaluatorInit(e, gold_entity_span_lists, pred_entity_span_lists) ==
    LET n == [e EXCEPT !.n_gold_docs = Len(gold_entity_span_lists),
                       !.n_pred_docs = Len(pred_entity_span_lists)]
    IN IF DocumentCountsDiffer(gold_entity_span_lists, pred_entity_span_lists)
       THEN [n EXCEPT !.pc = "error", !.error = "DocumentCountMismatch"]
       ELSE [n EXCEPT !.pc = "constructed",
                      !.gold_entity_span_lists = gold_entity_span_lists,
                      !.pred_entity_span_lists = pred_entity_span_lists,
                      !.unique_gold_tags = UniqueGoldTags(gold_entity_span_lists),
                      !.self_results = ResultAggregator,
                      !.self_results_grouped_by_tags = <<>>,
                      !.aggregators = @ + 1]

\* lines 220-230
NERTagListEvaluatorInit(tokens, gold_tag_lists, pred_tag_lists, padding) ==
    LET e == [EvIdle EXCEPT !.tokens = tokens,
                            !.gold_tag_lists = gold_tag_lists,
                            !.pred_tag_lists = pred_tag_lists,
                            !.entity_context_padding = padding]
        gold_entity_spans == tagged_list_to_span(gold_tag_lists, tokens, padding)
        pred_entity_spans == tagged_list_to_span(pred_tag_lists, tokens, padding)
    IN IF gold_entity_spans.pc = "error"
       THEN [e EXCEPT !.pc = "error", !.error = gold_entity_spans.error]
       ELSE IF pred_entity_spans.pc = "error"
       THEN [e EXCEPT !.pc = "error", !.error = pred_entity_spans.error]
       ELSE NEREvaluatorInit(e, gold_entity_spans.results,
                             pred_entity_spans.results)

\* lines 39-40
EvaluateBegin(e) ==
    [e EXCEPT !.pc = "evaluating",
              !.results_by_doc = <<>>,
              !.results = ResultAggregator,
              !.aggregators = @ + 1]

\* the loop of line 42 has a next pair of lists
EvaluateHasNext(e) ==
    /\ Len(e.results_by_doc) < Len(e.gold_entity_span_lists)
    /\ Len(e.results_by_doc) < Len(e.pred_entity_span_lists)

\* EvaluateDoc that keeps the aggregator of the document it has just aligned
\* as the overall result
EvaluateDoc_KeepsLast(e) ==
    LET i == Len(e.results_by_doc) + 1
        a == calculate_metrics_for_doc(e.gold_entity_span_lists[i],
                                       e.pred_entity_span_lists[i])
        r == [results |-> a.results,
              results_grouped_by_tags |-> a.results_grouped_by_tags]
    IN [e EXCEPT !.gold_entity_span_lists[i] = a.gold_entity_spans,
                 !.pred_entity_span_lists[i] = a.pred_entity_spans,
                 !.results_for_curr_doc = <<r>>,
                 !.results_by_doc = Append(@, r),
                 !.results = a.results,
                 !.aggregators = @ + 1]

\* lines 43-46: one iteration of the loop; the call sorts the two lists of the
\* document in place
EvaluateDoc(e) ==
    LET i == Len(e.results_by_doc) + 1
        a == calculate_metrics_for_doc(e.gold_entity_span_lists[i],
                                       e.pred_entity_span_lists[i])
        r == [results |-> a.results,
              results_grouped_by_tags |-> a.results_grouped_by_tags]
    IN [e EXCEPT !.gold_entity_span_lists[i] = a.gold_entity_spans,
                 !.pred_entity_span_lists[i] = a.pred_entity_spans,
                 !.results_for_curr_doc = <<r>>,
                 !.results_by_doc = Append(@, r),
                 !.results = append_result_aggregator(@, a.results),
                 !.aggregators = @ + 1]

\* line 48: the pair returned; results_for_curr_doc is unbound when the loop
\* body never ran
EvaluateReturn(e) ==
    IF e.results_for_curr_doc = <<>>
    THEN [e EXCEPT !.pc = "error", !.error = "UnboundLocalError"]
    ELSE [e EXCEPT !.pc = "returned",
                   !.returned = <<[first |-> e.results,
                                   second |-> e.results_for_curr_doc[1]]>>]

\* evaluate() run to its return or its error, lines 39-48
RECURSIVE EvaluateRun(_)
EvaluateRun(e) ==
    CASE e.pc = "constructed" -> EvaluateRun(EvaluateBegin(e))
      [] e.pc = "evaluating" ->
            IF EvaluateHasNext(e)
            THEN EvaluateRun(EvaluateDoc(e))
            ELSE EvaluateReturn(e)
      [] OTHER -> e

\* NEREvaluator(gold_entity_span_lists, pred_entity_span_lists).evaluate()
evaluate(gold_entity_span_lists, pred_entity_span_lists) ==
    EvaluateRun(NEREvaluatorInit(EvIdle, gold_entity_span_lists,
                                 pred_entity_span_lists))

-----------------------------------------------------------------------------
(* The aligner run on one document, step by step *)

AllSpans ==
    {Span(t, s, e) : t \in SpanTypes, s \in 0 .. MaxTok - 1, e \in 0 .. MaxTok - 1}

\* start_idx <= end_idx
WellFormedSpans == {s \in AllSpans : s.start_idx <= s.end_idx}

\* no two spans of one list share a token offset
NonOverlapping(l) ==
    \A i \in 1 .. Len(l) : \A j \in 1 .. Len(l) :
        i # j => ~overlaps_with(l[i], l[j])

\* the span lists a caller may pass: internally non-overlapping, in any order
SpanLists ==
    {l \in UNION {[1 .. n -> WellFormedSpans] : n \in 0 .. MaxSpans} :
        NonOverlapping(l)}

AlignIdle == [AlignBegin(<<>>, <<>>) EXCEPT !.pc = "idle"]

\* the call: the two parameters are bound to the caller's lists, line 50
AlignEnter(gold_entity_spans, pred_entity_spans) ==
    [AlignIdle EXCEPT !.pc = "called",
                      !.gold_entity_spans = gold_entity_spans,
                      !.pred_entity_spans = pred_entity_spans]

\* the call, line 50
AlignCall ==
    /\ align.pc = "idle"
    /\ \E gold \in SpanLists : \E pred \in SpanLists :
          align' = AlignEnter(gold, pred)
    /\ UNCHANGED <<ev, dec>>

\* the two lists are sorted in place and the locals are set, lines 61-72
AlignSort ==
    /\ align.pc = "called"
    /\ align' = AlignBegin(align.gold_entity_spans, align.pred_entity_spans)
    /\ UNCHANGED <<ev, dec>>

\* the main loop, lines 74-176
AlignMain ==
    /\ align.pc = "main"
    /\ align' = AlignStep(align)
    /\ UNCHANGED <<ev, dec>>

\* lines 178-179
AlignGoldCarry ==
    /\ align.pc = "gold_carry"
    /\ align' = AlignStep(align)
    /\ UNCHANGED <<ev, dec>>

\* lines 181-191
AlignGoldDrain ==
    /\ align.pc = "gold_drain"
    /\ align' = AlignStep(align)
    /\ UNCHANGED <<ev, dec>>

\* lines 193-194
AlignPredCarry ==
    /\ align.pc = "pred_carry"
    /\ align' = AlignStep(align)
    /\ UNCHANGED <<ev, dec>>

\* lines 195-207
AlignPredDrain ==
    /\ align.pc = "pred_drain"
    /\ align' = AlignStep(align)
    /\ UNCHANGED <<ev, dec>>

DecIdle == [pc |-> "idle"]

InitAlign ==
    /\ align = AlignIdle
    /\ ev = EvIdle
    /\ dec = DecIdle

NextAlign ==
    \/ AlignCall
    \/ AlignSort
    \/ AlignMain
    \/ AlignGoldCarry
    \/ AlignGoldDrain
    \/ AlignPredCarry
    \/ AlignPredDrain

SpecAlign == InitAlign /\ [][NextAlign]_vars

-----------------------------------------------------------------------------
(* What the aligner's counters say about the spans of the document *)

Partial == {"type_match_partial", "type_mismatch_partial"}

GoldSum(r) ==
    r.exact_match + r.type_mismatch_exact_bounds + r.type_match_partial
        + r.type_mismatch_partial + r.missed_gold

PredSum(r) ==
    r.exact_match + r.type_mismatch_exact_bounds + r.type_match_partial
        + r.type_mismatch_partial + r.spurious_pred

\* how often gold span i (predicted span i) was an argument of an add_X call
\* of one of the kinds
GoldCalls(a, i, kinds) ==
    Cardinality({k \in 1 .. Len(a.calls) :
                    a.calls[k].gold = i /\ a.calls[k].kind \in kinds})

PredCalls(a, i, kinds) ==
    Cardinality({k \in 1 .. Len(a.calls) :
                    a.calls[k].pred = i /\ a.calls[k].kind \in kinds})

\* the counter of a type in the per-type mapping, 0 when the type has no entry
GroupedCounter(grouped, tag, c) ==
    IF tag \in DOMAIN grouped THEN grouped[tag][c] ELSE 0

GoldIndices(a) == 0 .. Len(a.gold_entity_spans) - 1
PredIndices(a) == 0 .. Len(a.pred_entity_spans) - 1

\* gold span i shares no token offset with any predicted span of the document
GoldAlone(a, i) ==
    \A j \in PredIndices(a) :
        ~overlaps_with(a.gold_entity_spans[i + 1], a.pred_entity_spans[j + 1])

\* predicted span j shares no token offset with any gold span of the document
PredAlone(a, j) ==
    \A i \in GoldIndices(a) :
        ~overlaps_with(a.gold_entity_spans[i + 1], a.pred_entity_spans[j + 1])

\* C1: when the alignment of a document has finished, the five gold-side
\* counters add up to the number of gold spans and the five predicted-side
\* counters add up to the number of predicted spans.
C1_CountsPartitionSpans ==
    align.pc = "done" =>
        /\ GoldSum(align.results) = Len(align.gold_entity_spans)
        /\ PredSum(align.results) = Len(align.pred_entity_spans)

\* C4: when the alignment has finished, every predicted span that overlaps no
\* gold span was counted as spurious_pred exactly once, overall and under its
\* own type; with no overlap at all spurious_pred is the number of predicted
\* spans.
C4_SpuriousCountedOnce ==
    align.pc = "done" =>
        /\ \A j \in PredIndices(align) :
              PredAlone(align, j) => PredCalls(align, j, {"spurious_pred"}) = 1
        /\ \A t \in SpanTypes :
              GroupedCounter(align.results_grouped_by_tags, t, "spurious_pred")
                  >= Cardinality({j \in PredIndices(align) :
                        /\ PredAlone(align, j)
                        /\ align.pred_entity_spans[j + 1].span_type = t})
        /\ (\A j \in PredIndices(align) : PredAlone(align, j))
              => align.results.spurious_pred = Len(align.pred_entity_spans)

\* C5: when the alignment has finished, every gold span that overlaps no
\* predicted span was counted as missed_gold exactly once, overall and under
\* its own type; with an empty predicted list missed_gold is the number of
\* gold spans.
C5_MissedCountedOnce ==
    align.pc = "done" =>
        /\ \A i \in GoldIndices(align) :
              GoldAlone(align, i) => GoldCalls(align, i, {"missed_gold"}) = 1
        /\ \A t \in SpanTypes :
              GroupedCounter(align.results_grouped_by_tags, t, "missed_gold")
                  >= Cardinality({i \in GoldIndices(align) :
                        /\ GoldAlone(align, i)
                        /\ align.gold_entity_spans[i + 1].span_type = t})
        /\ align.pred_entity_spans = <<>>
              => align.results.missed_gold = Len(align.gold_entity_spans)

\* C6: at every point of the alignment, a gold span counted in a partial
\* outcome is not also counted as missed_gold, and a predicted span counted
\* in a partial outcome is not also counted as spurious_pred.
C6_NoDoubleCount ==
    /\ \A i \in GoldIndices(align) :
          GoldCalls(align, i, Partial) > 0
              => GoldCalls(align, i, {"missed_gold"}) = 0
    /\ \A j \in PredIndices(align) :
          PredCalls(align, j, Partial) > 0
              => PredCalls(align, j, {"spurious_pred"}) = 0

\* a finished alignment in which a gold span counted in a partial overlap
\* with a predicted span that ends before it was then passed over by the next
\* predicted span, and another gold span was counted as missed
C6_Witness ==
    /\ align.pc = "done"
    /\ \E i \in GoldIndices(align) : \E j \in PredIndices(align) :
          /\ GoldCalls(align, i, Partial) > 0
          /\ j > 0
          /\ align.pred_entity_spans[j + 1].start_idx
                > align.gold_entity_spans[i + 1].end_idx
          /\ align.pred_entity_spans[j].end_idx
                < align.gold_entity_spans[i + 1].end_idx
    /\ \E k \in 1 .. Len(align.calls) : align.calls[k].kind = "missed_gold"

\* C7: every iteration of the main loop moves at least one cursor forward,
\* no step moves a cursor back, and the main loop runs at most
\* len(gold) + len(pred) iterations.
C7_MainLoopAdvances ==
    [][/\ align'.gold_idx >= align.gold_idx
       /\ align'.pred_idx >= align.pred_idx
       /\ (align.pc = "main" /\ InMainLoop(align))
             => align'.gold_idx + align'.pred_idx
                    > align.gold_idx + align.pred_idx
       /\ align'.iterations
             <= Len(align'.gold_entity_spans) + Len(align'.pred_entity_spans)
      ]_vars

\* a finished alignment whose main loop ran three iterations, each moving
\* one cursor
C7_Witness ==
    /\ align.pc = "done"
    /\ align.iterations >= 3
    /\ align.results.exact_match = 0

\* the sum of counter c over the per-type aggregators of the types
RECURSIVE SumOverTypes(_, _, _)
SumOverTypes(grouped, types, c) ==
    IF types = {} THEN 0
    ELSE LET t == CHOOSE x \in types : TRUE
         IN GroupedCounter(grouped, t, c) + SumOverTypes(grouped, types \ {t}, c)

\* the type under which the k-th add_X call is to be recorded: the predicted
\* span's for a spurious outcome, the gold span's for every other
KeyType(a, k) ==
    IF a.calls[k].kind = "spurious_pred"
    THEN a.pred_entity_spans[a.calls[k].pred + 1].span_type
    ELSE a.gold_entity_spans[a.calls[k].gold + 1].span_type

\* C13: at every step of the alignment each overall counter is the sum of
\* that counter over the per-type aggregators, and each per-type counter is
\* the number of outcomes of that kind whose gold span (for a spurious
\* outcome: whose predicted span) has the type.
C13_OverallIsSumOfPerType ==
    /\ DOMAIN align.results_grouped_by_tags \subseteq SpanTypes
    /\ \A c \in CounterNames :
          align.results[c]
              = SumOverTypes(align.results_grouped_by_tags, SpanTypes, c)
    /\ \A t \in SpanTypes : \A c \in CounterNames :
          GroupedCounter(align.results_grouped_by_tags, t, c)
              = Cardinality({k \in 1 .. Len(align.calls) :
                    align.calls[k].kind = c /\ KeyType(align, k) = t})

\* a finished alignment with a partial overlap of spans of two types and a
\* spurious span of a type no gold span has
C13_Witness ==
    /\ align.pc = "done"
    /\ align.results.type_mismatch_partial >= 1
    /\ \E k \in 1 .. Len(align.calls) :
          /\ align.calls[k].kind = "spurious_pred"
          /\ \A i \in GoldIndices(align) :
                align.gold_entity_spans[i + 1].span_type # KeyType(align, k)

\* every counter of r but c is 0, and c is n
OnlyCounter(r, c, n) ==
    \A d \in CounterNames : r[d] = (IF d = c THEN n ELSE 0)

\* the two lists have the same length and, place by place, the same bounds
\* and different types
SameBoundsOtherTypes(gold, pred) ==
    /\ Len(gold) = Len(pred)
    /\ \A i \in 1 .. Len(gold) :
          /\ gold[i].start_idx = pred[i].start_idx
          /\ gold[i].end_idx = pred[i].end_idx
          /\ gold[i].span_type # pred[i].span_type

\* C14: when the alignment has finished, a predicted list equal to the gold
\* list of n spans gives exact_match = n and 0 in the five other counters,
\* and a predicted list with the gold list's bounds and a different type at
\* every place gives type_mismatch_exact_bounds = n and 0 in the others.
C14_IdenticalAndRetypedLists ==
    align.pc = "done" =>
        /\ align.pred_entity_spans = align.gold_entity_spans
              => OnlyCounter(align.results, "exact_match",
                             Len(align.gold_entity_spans))
        /\ SameBoundsOtherTypes(align.gold_entity_spans, align.pred_entity_spans)
              => OnlyCounter(align.results, "type_mismatch_exact_bounds",
                             Len(align.gold_entity_spans))

\* a finished alignment of two equal lists of as many spans as a list may
\* hold, of two types
C14_Witness ==
    /\ align.pc = "done"
    /\ align.pred_entity_spans = align.gold_entity_spans
    /\ Len(align.gold_entity_spans) = MaxSpans
    /\ align.gold_entity_spans[1].span_type # align.gold_entity_spans[2].span_type

\* a finished alignment of two lists with the same bounds and other types
C14_WitnessOtherTypes ==
    /\ align.pc = "done"
    /\ Len(align.gold_entity_spans) = MaxSpans
    /\ SameBoundsOtherTypes(align.gold_entity_spans, align.pred_entity_spans)

SharingPairs(a) ==
    {pair \in GoldIndices(a) \X PredIndices(a) :
        \E offset \in 0 .. MaxTok - 1 :
            /\ a.gold_entity_spans[pair[1] + 1].start_idx <= offset
            /\ offset <= a.gold_entity_spans[pair[1] + 1].end_idx
            /\ a.pred_entity_spans[pair[2] + 1].start_idx <= offset
            /\ offset <= a.pred_entity_spans[pair[2] + 1].end_idx}

\* those of the pairs whose two spans have the same start and the same end
SameBoundsPairs(a) ==
    {pair \in SharingPairs(a) :
        /\ a.gold_entity_spans[pair[1] + 1].start_idx
              = a.pred_entity_spans[pair[2] + 1].start_idx
        /\ a.gold_entity_spans[pair[1] + 1].end_idx
              = a.pred_entity_spans[pair[2] + 1].end_idx}

\* the add_X calls made for the pair
PairCalls(a, pair) ==
    {k \in 1 .. Len(a.calls) :
        a.calls[k].gold = pair[1] /\ a.calls[k].pred = pair[2]}

\* C20: when the alignment has finished, every pair of a gold and a predicted
\* span with a common token offset has been classified exactly once and no
\* other pair has; the two partial counters add up to the number of such
\* pairs with different bounds, and exact_match and
\* type_mismatch_exact_bounds to the number of such pairs with the same
\* bounds.
C20_SharingPairsComparedOnce ==
    align.pc = "done" =>
        /\ \A pair \in GoldIndices(align) \X PredIndices(align) :
              Cardinality(PairCalls(align, pair))
                  = (IF pair \in SharingPairs(align) THEN 1 ELSE 0)
        /\ align.results.type_match_partial + align.results.type_mismatch_partial
              = Cardinality(SharingPairs(align) \ SameBoundsPairs(align))
        /\ align.results.exact_match + align.results.type_mismatch_exact_bounds
              = Cardinality(SameBoundsPairs(align))

\* a finished alignment in which one gold span shares tokens with two
\* predicted spans, one predicted span shares tokens with two gold spans,
\* and a pair has the same bounds
C20_Witness ==
    /\ align.pc = "done"
    /\ \E i \in GoldIndices(align) :
          Cardinality({pair \in SharingPairs(align) : pair[1] = i}) = 2
    /\ Cardinality(SharingPairs(align)) >= 3

\* a finished alignment with a pair of the same bounds and a pair of
\* different bounds
C20_WitnessSameBounds ==
    /\ align.pc = "done"
    /\ SameBoundsPairs(align) # {}
    /\ SharingPairs(align) \ SameBoundsPairs(align) # {}

\* C12: no step of the alignment changes the two span lists the caller
\* passed: they hold the same spans in the same order as at the call.
C12_CallerListsUnchanged ==
    [][align.pc # "idle"
          => /\ align'.gold_entity_spans = align.gold_entity_spans
             /\ align'.pred_entity_spans = align.pred_entity_spans
      ]_vars

-----------------------------------------------------------------------------
(* The decoder run on one list of tag lists, step by step *)

O == <<"O">>

\* "<prefix>-<type>"
Tag(prefix, type) == <<prefix, "-">> \o type

\* the tags of the input: the recognised prefixes and an unrecognised one
TagUniverse ==
    {O, Tag("B", PER), Tag("I", PER), Tag("L", PER), Tag("U", PER),
        Tag("I", LOC), Tag("X", PER)}

TagLists(n) == UNION {[1 .. k -> TagUniverse] : k \in 0 .. n}

\* a token list of n tokens; the token at offset i is i
Tokens(n) == [i \in 1 .. n |-> i - 1]

\* the call, lines 232-254
DecCall ==
    /\ dec.pc = "idle"
    /\ \E n_tag_lists \in 0 .. MaxDocs : \E n_token_lists \in 0 .. MaxDocs :
       \E padding \in {0, MaxPad} :
          dec' = DecodeBegin(n_tag_lists, n_token_lists, padding)
                    @@ [tags_seen |-> 0]
    /\ UNCHANGED <<align, ev>>

\* the loop over the documents takes the next one, lines 256-268
DecDoc ==
    /\ dec.pc = "doc"
    /\ dec.doc < dec.n_docs
    /\ \E tag_list \in TagLists(MaxTags - dec.tags_seen) :
       \E n \in {Len(tag_list) - 1, Len(tag_list), Len(tag_list) + 1} \cap Nat :
          dec' = [DecodeDoc(dec, tag_list, Tokens(n))
                     EXCEPT !.tags_seen = @ + Len(tag_list)]
    /\ UNCHANGED <<align, ev>>

\* the loop over the tags of the document, lines 270-307
DecTag ==
    /\ dec.pc = "tag"
    /\ dec.offset < Len(dec.tag_list)
    /\ dec' = DecodeTag(dec)
    /\ UNCHANGED <<align, ev>>

\* the tags of the document are used up, lines 309-318
DecDocEnd ==
    /\ dec.pc = "tag"
    /\ dec.offset = Len(dec.tag_list)
    /\ dec' = DecodeDocEnd(dec)
    /\ UNCHANGED <<align, ev>>

\* the documents are used up, line 320
DecReturn ==
    /\ dec.pc = "doc"
    /\ dec.doc = dec.n_docs
    /\ dec' = DecodeReturn(dec)
    /\ UNCHANGED <<align, ev>>

InitDecode ==
    /\ align = AlignIdle
    /\ ev = EvIdle
    /\ dec = DecIdle

NextDecode ==
    \/ DecCall
    \/ DecDoc
    \/ DecTag
    \/ DecDocEnd
    \/ DecReturn

SpecDecode == InitDecode /\ [][NextDecode]_vars

-----------------------------------------------------------------------------
(* The evaluator: a constructor, then evaluate() *)

\* the span lists of a one-token document
CorpusLists ==
    {l \in SpanLists : Len(l) <= 1 /\ \A i \in 1 .. Len(l) : l[i].end_idx = 0}

\* the corpora of at most MaxDocs such documents
Corpora == UNION {[1 .. n -> CorpusLists] : n \in 0 .. MaxDocs}

\* the tags of the corpora given to the tag-list evaluator
CorpusTags == {O, Tag("U", PER), Tag("I", LOC), Tag("X", PER)}

\* documents of no token or one token: the tokens, the gold and predicted tags
TaggedDocs ==
    {[tokens |-> Tokens(n), gold |-> g, pred |-> p] :
        n \in {0}, g \in {<<>>}, p \in {<<>>}}
    \cup
    {[tokens |-> Tokens(1), gold |-> <<g>>, pred |-> <<p>>] :
        g \in CorpusTags, p \in CorpusTags}

TaggedCorpora == UNION {[1 .. n -> TaggedDocs] : n \in 0 .. MaxDocs}

\* NEREvaluator(gold_entity_span_lists, pred_entity_span_lists)
NERInit ==
    /\ ev.pc = "idle"
    /\ \E gold \in Corpora : \E pred \in Corpora :
          ev' = NEREvaluatorInit(EvIdle, gold, pred)
    /\ UNCHANGED <<align, dec>>

\* NERTagListEvaluator(tokens, gold_tag_lists, pred_tag_lists, padding)
TagListInit ==
    /\ ev.pc = "idle"
    /\ \E c \in TaggedCorpora : \E padding \in {0, MaxPad} :
          ev' = NERTagListEvaluatorInit(
                    [i \in 1 .. Len(c) |-> c[i].tokens],
                    [i \in 1 .. Len(c) |-> c[i].gold],
                    [i \in 1 .. Len(c) |-> c[i].pred],
                    padding)
    /\ UNCHANGED <<align, dec>>

\* evaluate() is called, lines 39-40
EvalCall ==
    /\ ev.pc = "constructed"
    /\ ev' = EvaluateBegin(ev)
    /\ UNCHANGED <<align, dec>>

\* one iteration of the loop of evaluate(), lines 42-46
EvalDoc ==
    /\ ev.pc = "evaluating"
    /\ EvaluateHasNext(ev)
    /\ ev' = EvaluateDoc(ev)
    /\ UNCHANGED <<align, dec>>

\* evaluate() returns, line 48
EvalReturn ==
    /\ ev.pc = "evaluating"
    /\ ~EvaluateHasNext(ev)
    /\ ev' = EvaluateReturn(ev)
    /\ UNCHANGED <<align, dec>>

Init ==
    /\ align = AlignIdle
    /\ ev = EvIdle
    /\ dec = DecIdle

Next ==
    \/ NERInit
    \/ TagListInit
    \/ EvalCall
    \/ EvalDoc
    \/ EvalReturn

Spec == Init /\ [][Next]_vars

-----------------------------------------------------------------------------
(* What the decoder does with malformed input *)

\* the prefixes of the tagging scheme
RecognisedPrefixes == {<<"B">>, <<"I">>, <<"L">>, <<"U">>, <<"O">>}

\* the decoder is about to read a tag, and which
AtTag == dec.pc = "tag" /\ dec.offset < Len(dec.tag_list)
CurrentTag == dec.tag_list[dec.offset + 1]

\* C9: a document whose tag list and token list differ in length stops the
\* call with the LengthMismatch error as soon as the loop reaches it: the call
\* never goes on to read its tags, to the next document or to its return, and
\* a call that returns has decoded every document.
C9_LengthMismatchAborts ==
    /\ (dec.pc # "idle" /\ Len(dec.tag_list) # Len(dec.token_list))
          => dec.pc = "error" /\ dec.error = "LengthMismatch"
    /\ dec.pc = "returned" => Len(dec.doc_spans) = dec.n_docs

\* the call stopped by a length mismatch in a later document, after an
\* earlier document's spans had joined the results
C9_Witness ==
    /\ dec.pc = "error"
    /\ dec.error = "LengthMismatch"
    /\ dec.doc >= 1
    /\ dec.results # <<>>
    /\ Len(dec.tag_list) < Len(dec.token_list)

\* C10: reading a tag whose prefix is not one of B, I, L, U, O stops the call
\* with the InvalidTag error, whatever span is open, and neither emits a span
\* nor changes the open span.
C10_InvalidTagRaises ==
    [][(AtTag /\ UpTo1(CurrentTag) \notin RecognisedPrefixes)
          => /\ dec'.pc = "error"
             /\ dec'.error = "InvalidTag"
             /\ dec'.labelled_entities = dec.labelled_entities
             /\ dec'.results = dec.results
             /\ dec'.label = dec.label
             /\ dec'.start_offset = dec.start_offset
      ]_vars

\* the InvalidTag error at a tag of the type of the open span
C10_Witness ==
    /\ dec.pc = "error"
    /\ dec.error = "InvalidTag"
    /\ dec.offset >= 1
    /\ dec.label = From2(dec.tag_list[dec.offset + 1])

\* the InvalidTag error with no span open
C10_WitnessNoSpanOpen ==
    /\ dec.pc = "error"
    /\ dec.error = "InvalidTag"
    /\ dec.offset >= 1
    /\ dec.label = None

\* the InvalidTag error at a tag of another type than the open span
C10_WitnessOtherTypeOpen ==
    /\ dec.pc = "error"
    /\ dec.error = "InvalidTag"
    /\ dec.label = LOC
    /\ From2(dec.tag_list[dec.offset + 1]) = PER

-----------------------------------------------------------------------------
(* What the decoder emits for the tags of a document *)

\* the loop has just finished a document: tag_list and token_list are still
\* that document's, and its spans are the last entry of doc_spans
DocDecoded == dec.pc = "doc" /\ dec.doc >= 1

LastDocSpans == dec.doc_spans[dec.doc]

\* the spans of the list that hold the token offset
Covering(spans, offset) ==
    {k \in 1 .. Len(spans) :
        spans[k].start_idx <= offset /\ offset <= spans[k].end_idx}

\* C15: the spans emitted for a document with valid tags are in strictly
\* ascending order and share no offset, each has start_idx <= end_idx and
\* lies inside the document; every offset with a tag other than "O" is in
\* exactly one span, of the tag's type, and no offset with "O" is in any; a
\* span open at the last tag ends at the last offset.
C15_SpansCoverTaggedOffsets ==
    DocDecoded =>
        LET spans == LastDocSpans
            tag_list == dec.tag_list
        IN /\ \A k \in 1 .. Len(spans) :
                 /\ 0 <= spans[k].start_idx
                 /\ spans[k].start_idx <= spans[k].end_idx
                 /\ spans[k].end_idx <= Len(tag_list) - 1
           /\ \A k \in 1 .. Len(spans) - 1 :
                 spans[k].end_idx < spans[k + 1].start_idx
           /\ \A offset \in 0 .. Len(tag_list) - 1 :
                 IF tag_list[offset + 1] = O
                 THEN Covering(spans, offset) = {}
                 ELSE /\ Cardinality(Covering(spans, offset)) = 1
                      /\ \A k \in Covering(spans, offset) :
                            spans[k].span_type = From2(tag_list[offset + 1])
           /\ (tag_list # <<>> /\ tag_list[Len(tag_list)] # O)
                 => /\ spans # <<>>
                    /\ spans[Len(spans)].end_idx = Len(tag_list) - 1

\* a decoded document with an "O" tag, a span of more than one token and a
\* span that was open at the last tag
C15_Witness ==
    /\ DocDecoded
    /\ \E offset \in 1 .. Len(dec.tag_list) : dec.tag_list[offset] = O
    /\ \E k \in 1 .. Len(LastDocSpans) :
          LastDocSpans[k].start_idx < LastDocSpans[k].end_idx
    /\ dec.tag_list[Len(dec.tag_list)] # O
    /\ Len(LastDocSpans) >= 2

\* the offsets at which an emitted span starts
SpanStarts(spans) == {spans[k].start_idx : k \in 1 .. Len(spans)}

\* a span of the tag's type is open when the tag at the offset is read: the
\* tag before it is not "O" and has the same type
SameTypeOpen(tag_list, offset) ==
    /\ offset >= 1
    /\ tag_list[offset] # O
    /\ From2(tag_list[offset]) = From2(tag_list[offset + 1])

\* C18: in a decoded document every offset with a B or U tag is the start of
\* an emitted span, whatever was open before it; an offset with an I or L tag
\* is not the start of a span when a span of the tag's type was open, and is
\* the start of one when a span of another type or no span was open.
C18_SpanStarts ==
    DocDecoded =>
        \A offset \in 0 .. Len(dec.tag_list) - 1 :
            LET prefix == UpTo1(dec.tag_list[offset + 1])
            IN /\ prefix \in {<<"B">>, <<"U">>}
                     => offset \in SpanStarts(LastDocSpans)
               /\ prefix \in {<<"I">>, <<"L">>}
                     => (offset \in SpanStarts(LastDocSpans)
                            <=> ~SameTypeOpen(dec.tag_list, offset))

\* a decoded document with a B or U tag right after a tag of the same type
C18_Witness ==
    /\ DocDecoded
    /\ \E offset \in 1 .. Len(dec.tag_list) - 1 :
          /\ UpTo1(dec.tag_list[offset + 1]) \in {<<"B">>, <<"U">>}
          /\ SameTypeOpen(dec.tag_list, offset)

\* an I or L tag continuing a span, and an I or L tag starting one after a
\* span of another type
C18_WitnessInsideTags ==
    /\ DocDecoded
    /\ \E offset \in 1 .. Len(dec.tag_list) - 1 :
          /\ UpTo1(dec.tag_list[offset + 1]) \in {<<"I">>, <<"L">>}
          /\ SameTypeOpen(dec.tag_list, offset)
    /\ \E offset \in 1 .. Len(dec.tag_list) - 1 :
          /\ UpTo1(dec.tag_list[offset + 1]) \in {<<"I">>, <<"L">>}
          /\ dec.tag_list[offset] # O
          /\ ~SameTypeOpen(dec.tag_list, offset)

\* an I or L tag starting a span with no span open
C18_WitnessNoSpanOpen ==
    /\ DocDecoded
    /\ \E offset \in 0 .. Len(dec.tag_list) - 1 :
          /\ UpTo1(dec.tag_list[offset + 1]) \in {<<"I">>, <<"L">>}
          /\ (offset = 0 \/ dec.tag_list[offset] = O)

\* the spans of document i alone
SpansOfDoc(tag_lists, token_lists, padding, i) ==
    tagged_list_to_span(<<tag_lists[i]>>, <<token_lists[i]>>, padding).doc_spans[1]

\* C19: when the loop takes the next document no span is open and no span
\* is pending, whatever the document before it left; and the spans emitted
\* for a document are those the decoder emits for that document alone.
C19_NoLeakAcrossDocuments ==
    [][/\ (dec.pc = "doc" /\ dec'.pc \in {"tag", "error"})
             => /\ dec'.label = None
                /\ dec'.start_offset = NoOffset
                /\ dec'.end_offset = NoOffset
                /\ dec'.labelled_entities = <<>>
       /\ (dec.pc = "tag" /\ dec'.pc = "doc")
             => dec'.doc_spans[dec'.doc]
                    = SpansOfDoc(<<dec.tag_list>>, <<dec.token_list>>,
                                 dec.entity_context_padding, 1)
      ]_vars

\* the last token of the document the span comes from is the span's last
\* token: with padding, its context window ends with the span
EndsItsDocument(s) ==
    /\ dec.entity_context_padding > 0
    /\ s.context_tokens[Len(s.context_tokens)] = s.end_idx

\* the second document is decoded; the first ended with an entity on its
\* last token, and the second begins with an I tag of that entity's type
C19_Witness ==
    /\ DocDecoded
    /\ dec.doc = 2
    /\ dec.doc_spans[1] # <<>>
    /\ dec.tag_list # <<>>
    /\ LET s == dec.doc_spans[1][Len(dec.doc_spans[1])]
       IN /\ EndsItsDocument(s)
          /\ dec.tag_list[1] = Tag("I", s.span_type)
    /\ LastDocSpans[1].start_idx = 0

\* the tokens of the list at the offsets lo .. hi, both included
TokensFromTo(token_list, lo, hi) ==
    [i \in 1 .. hi - lo + 1 |-> token_list[lo + i]]

\* the spans emitted so far for the document the loop is at, or has just
\* finished
EmittedSpans ==
    {dec.labelled_entities[k] : k \in 1 .. Len(dec.labelled_entities)}
        \cup (IF DocDecoded
              THEN {LastDocSpans[k] : k \in 1 .. Len(LastDocSpans)}
              ELSE {})

\* C16: the context window of every emitted span is the tokens of its
\* document from offset max(0, start - pad) to offset min(end + pad, n - 1),
\* for the padding pad and the document length n; it holds the span's own
\* tokens, and is the span's own tokens when pad is 0.
C16_ContextWindow ==
    dec.pc \in {"tag", "doc"} =>
        \A s \in EmittedSpans :
            LET pad == dec.entity_context_padding
                n == Len(dec.token_list)
                lo == Max(0, s.start_idx - pad)
                hi == Min(s.end_idx + pad, n - 1)
            IN /\ s.tokens = TokensFromTo(dec.token_list, s.start_idx, s.end_idx)
               /\ s.context_tokens = TokensFromTo(dec.token_list, lo, hi)
               /\ 0 <= lo /\ lo <= s.start_idx
               /\ s.end_idx <= hi /\ hi <= n - 1
               /\ pad = 0 => s.context_tokens = s.tokens

\* a decoded document, with padding, with a span whose window is cut at the
\* start of the document and padded after it, and a span whose window is
\* padded before it and cut at the end of the document
C16_Witness ==
    /\ DocDecoded
    /\ dec.entity_context_padding = MaxPad
    /\ \E s \in EmittedSpans :
          /\ s.start_idx = 0
          /\ Len(s.context_tokens) = Len(s.tokens) + MaxPad
    /\ \E s \in EmittedSpans :
          /\ s.end_idx = Len(dec.token_list) - 1
          /\ Len(s.context_tokens) = Len(s.tokens) + MaxPad

\* a span with padding on both sides
C16_WitnessBothSides ==
    /\ DocDecoded
    /\ \E s \in EmittedSpans :
          Len(s.context_tokens) = Len(s.tokens) + 2 * MaxPad

\* a span emitted without padding
C16_WitnessNoPadding ==
    /\ DocDecoded
    /\ dec.entity_context_padding = 0
    /\ EmittedSpans # {}

-----------------------------------------------------------------------------
(* What the evaluator returns, and when its construction fails *)

\* the sum of counter c of type tag over the per-type mappings of the
\* documents
RECURSIVE SumPerType(_, _, _)
SumPerType(docs, tag, c) ==
    IF docs = <<>> THEN 0
    ELSE GroupedCounter(Head(docs).results_grouped_by_tags, tag, c)
            + SumPerType(Tail(docs), tag, c)

\* the sum of counter c over the aggregators of the documents
RECURSIVE SumOverall(_, _)
SumOverall(docs, c) ==
    IF docs = <<>> THEN 0
    ELSE Head(docs).results[c] + SumOverall(Tail(docs), c)

\* every type with an entry in some document's per-type mapping
TypesCounted(docs) ==
    UNION {DOMAIN docs[i].results_grouped_by_tags : i \in 1 .. Len(docs)}

\* C2: the first element evaluate() returns is the counter-wise sum of the
\* documents' aggregators, and the second gives, for every type and counter,
\* the sum of the documents' per-type values.
C2_ReturnsMergedPerType ==
    ev.pc = "returned" =>
        /\ \A c \in CounterNames :
              ev.returned[1].first[c] = SumOverall(ev.results_by_doc, c)
        /\ \A t \in TypesCounted(ev.results_by_doc) : \A c \in CounterNames :
              GroupedCounter(ev.returned[1].second.results_grouped_by_tags, t, c)
                  = SumPerType(ev.results_by_doc, t, c)

\* the tag lists hold only "O" and tags with a prefix of the scheme
ValidTags(tag_lists) ==
    \A i \in 1 .. Len(tag_lists) : \A j \in 1 .. Len(tag_lists[i]) :
        UpTo1(tag_lists[i][j]) \in RecognisedPrefixes

\* C3: a tag-list evaluator built from N documents with valid tags holds N
\* gold and N predicted span lists, list i the spans of document i, and its
\* construction does not fail.
C3_OneSpanListPerDocument ==
    (ev.pc # "idle" /\ ev.tokens # <<>>
        /\ ValidTags(ev.gold_tag_lists) /\ ValidTags(ev.pred_tag_lists))
    => /\ ev.pc # "error"
       /\ Len(ev.gold_entity_span_lists) = Len(ev.tokens)
       /\ Len(ev.pred_entity_span_lists) = Len(ev.tokens)
       /\ \A i \in 1 .. Len(ev.tokens) :
             /\ ev.gold_entity_span_lists[i]
                   = SpansOfDoc(ev.gold_tag_lists, ev.tokens,
                                ev.entity_context_padding, i)
             /\ ev.pred_entity_span_lists[i]
                   = SpansOfDoc(ev.pred_tag_lists, ev.tokens,
                                ev.entity_context_padding, i)

\* C8: when the constructor is given corpora of different document counts it
\* fails with DocumentCountMismatch: no aggregator is created, no document is
\* aligned and nothing is returned.
C8_CountMismatchFails ==
    ev.n_gold_docs # ev.n_pred_docs
        => /\ ev.pc = "error"
           /\ ev.error = "DocumentCountMismatch"
           /\ ev.aggregators = 0
           /\ ev.results_by_doc = <<>>
           /\ ev.returned = <<>>

\* the constructor failed on a gold corpus shorter than the predicted corpus,
\* given as span lists
C8_Witness ==
    /\ ev.pc = "error"
    /\ ev.error = "DocumentCountMismatch"
    /\ ev.tokens = <<>>
    /\ 0 < ev.n_gold_docs
    /\ ev.n_gold_docs < ev.n_pred_docs

\* the corpus with its documents in the order perm
Permuted(span_lists, perm) ==
    [i \in 1 .. Len(span_lists) |-> span_lists[perm[i]]]

\* C11: the overall counters evaluate() returns are those it returns for the
\* same documents in any other order, the gold and the predicted corpus
\* permuted alike.
C11_OverallIndependentOfDocumentOrder ==
    ev.pc = "returned" =>
        \A perm \in Permutations(1 .. Len(ev.gold_entity_span_lists)) :
            LET other == evaluate(Permuted(ev.gold_entity_span_lists, perm),
                                  Permuted(ev.pred_entity_span_lists, perm))
            IN /\ other.pc = "returned"
               /\ \A c \in CounterNames :
                     other.returned[1].first[c] = ev.returned[1].first[c]

\* evaluate() has returned for a corpus whose first and last document have
\* different outcomes
C11_Witness ==
    /\ ev.pc = "returned"
    /\ Len(ev.results_by_doc) >= 2
    /\ ev.results_by_doc[1].results.exact_match = 1
    /\ ev.results_by_doc[Len(ev.results_by_doc)].results.spurious_pred = 1

\* C21: evaluate() on an evaluator constructed from a corpus of zero
\* documents does not fail, and what it returns is an aggregator with 0 in
\* every counter and a per-type mapping without entries.
C21_EmptyCorpusReturnsZeros ==
    (/\ ev.aggregators >= 1
     /\ ev.gold_entity_span_lists = <<>>
     /\ ev.pred_entity_span_lists = <<>>)
    => /\ ev.pc # "error"
       /\ ev.pc = "returned"
             => /\ \A c \in CounterNames : ev.returned[1].first[c] = 0
                /\ DOMAIN ev.returned[1].second.results_grouped_by_tags = {}

====
